---- MODULE Spec2Model ----
(***************************************************************************)
(* nuxt-workers: the call-correlation protocol of the generated code.      *)
(*                                                                         *)
(* WorkerPlugin.load (src/plugins/unplugin.ts) generates, per worker file, *)
(* a virtual module with one async proxy per export.  In client mode the   *)
(* proxies share `map`, `count` and `_nuxt_worker`; in server mode a proxy *)
(* imports the file and calls the function directly.                       *)
(* WorkerTransformPlugin.transform appends the dispatcher to the worker    *)
(* file: an onmessage handler that looks the name up in                    *)
(* __worker_exports__, awaits the function and posts the response.         *)
(*                                                                         *)
(* JavaScript values are tagged records, so that a number and a string are *)
(* different values that can be compared.  Record fields are written in    *)
(* alphabetical order throughout.                                         *)
(***************************************************************************)
EXTENDS Integers, Sequences, FiniteSets, TLC

VARIABLES
  mode,          \* opts.mode of the WorkerPlugin that generated the proxies (l. 127, 171)
  isShared,      \* file.endsWith('.shared.ts') (l. 32, 128)
  nuxt_worker,   \* let _nuxt_worker (l. 133): "unset", or "worker" once initWorker() ran
  count,         \* let count = 0 (l. 132)
  map,           \* const map = {} (l. 131): id -> the promise whose [resolve, reject] it holds
  promises,      \* the promise returned by the k-th isolated proxy call (l. 185)
  sent,          \* every call envelope posted by a proxy, in order (l. 187)
  toWorker,      \* call envelopes in flight to the worker (FIFO)
  workerState,   \* "none", "loading", "evaluated" (script ran), "connected" (shared port open)
  handled,       \* worker side: one record per run of the dispatcher's handler (l. 81-95)
  toCaller,      \* messages in flight to the caller-side onmessage (FIFO)
  delivered,     \* every message the caller-side onmessage ran on, in order (l. 154-161)
  serverCalls,   \* server mode: the outcome of each direct proxy call (l. 173-174)
  workers,       \* how many times initWorker() constructed a worker (l. 136)
  sentVia,       \* for each envelope of `sent`, the worker (1, 2, ...) it was posted to
  callerPort,    \* the caller's end of the channel: worker.port, or the worker itself (l. 143-161)
  workerPort,    \* the worker's end: e.ports[0] of onconnect, or self (l. 53-70, 81)
  settleOrder,   \* the promises in the order in which they were settled
  fs,            \* the worker directories: the files in scan order, each with its export names
  workerExports, \* context.workerExports: export name -> file (module.ts l. 62)
  reverseMap,    \* context.reverseMap: file -> export names (module.ts l. 63)
  scans,         \* the calls of getContents: file list, what was read, warnings
  lastDone,      \* the scan whose registration loop ran last (0: none yet)
  observed,      \* what the last reader of the registry read
  rejectedCalls, \* the futures of the proxy calls in which initWorker() threw (l. 183)
  ctxWorker,     \* per calling context: its _nuxt_worker, "unset" or "worker" (l. 133)
  ctxCount,      \* per calling context: its count (l. 132)
  ctxMap,        \* per calling context: its map, id -> promise (l. 131)
  ctxPromises,   \* per calling context: the promises its proxy calls returned (l. 185)
  portIn,        \* per context: call envelopes in flight on its port to the shared worker
  portOut,       \* per context: responses in flight on its port to the context
  connected,     \* the contexts for whose port onconnect has run in the shared worker (l. 52-70)
  dispatches,    \* shared worker: one record per run of a port's handler (l. 55-69)
  ctxDelivered,  \* per context: the messages its port's onmessage ran on (l. 143-150)
  definition,    \* which definition of the plugins generated the code: 1 (l. 1-199), 2 (l. 201-427)
  flEnvs,        \* the call envelopes sent, the same to a worker of each flavour
  flReceived,    \* per flavour: how many of them its dispatcher has handled
  flResponses,   \* per flavour: the responses its dispatcher has sent, in order
  flRouted,      \* per flavour: how many of them its router has run on
  flPromises     \* per flavour: the promises of the calls

protoVars == <<mode, isShared, nuxt_worker, count, map, promises, sent, toWorker,
               workerState, handled, toCaller, delivered, serverCalls,
               workers, sentVia, callerPort, workerPort, settleOrder>>

scanVars == <<fs, workerExports, reverseMap, scans, lastDone, observed>>

failVars == <<rejectedCalls>>

sharedVars == <<ctxWorker, ctxCount, ctxMap, ctxPromises, portIn, portOut,
                connected, dispatches, ctxDelivered>>

flavourVars == <<definition, flEnvs, flReceived, flResponses, flRouted, flPromises>>

vars == <<protoVars, scanVars, failVars, sharedVars, flavourVars>>

\* what the actions of the protocol, and those of the registry, leave alone
exceptProtoVars == <<scanVars, failVars, sharedVars, flavourVars>>
exceptScanVars == <<protoVars, failVars, sharedVars, flavourVars>>
exceptSharedVars == <<protoVars, scanVars, failVars, flavourVars>>
exceptFlavourVars == <<protoVars, scanVars, failVars, sharedVars>>

(***************************************************************************)
(* Bounds of the model.                                                    *)
(***************************************************************************)
MaxCalls == 2      \* proxy calls issued in one run
MaxForeign == 1    \* messages reaching the caller that no dispatch of a call produced
MaxScans == 2      \* calls of getContents in one run
MaxFailures == 1   \* proxy calls in which the worker cannot be constructed
NumContexts == 2   \* calling contexts (pages) that load the proxies of one shared worker

(***************************************************************************)
(* JavaScript values.                                                      *)
(***************************************************************************)
Num(n) == [n |-> n, t |-> "number"]
Str(s) == [s |-> s, t |-> "string"]
Undefined == [t |-> "undefined"]
Null == [t |-> "null"]
Fn == [t |-> "function"]
ErrorObj(m) == [message |-> m, t |-> "Error"]

\* The worker file of the run: what its exported functions do when called.
\* sum(a, b) => a + b; fail() throws new Error("boom"); throwNull() throws null
\* (the same as `return Promise.reject(null)`).
ModuleExports == {"sum", "fail", "throwNull"}

\* The argument lists a proxy is called with: sum with two numbers, the others
\* with none.
ArgLists(name) ==
  IF name = "sum" THEN {<<Num(2), Num(3)>>, <<Num(3), Num(3)>>} ELSE {<<>>}

\* Calling the module's function `name` with `args`: it returns a value or throws one.
CallFn(name, args) ==
  CASE name = "sum" -> [kind |-> "return", val |-> Num(args[1].n + args[2].n)]
    [] name = "fail" -> [kind |-> "throw", val |-> ErrorObj("boom")]
    [] name = "throwNull" -> [kind |-> "throw", val |-> Null]

\* The names the generated proxies exist for.  load() and transform() read
\* reverseMap at different times, so the proxies' names need not be the keys of
\* the dispatcher's table: "missing" and "toString" are proxies whose name the
\* worker file does not export.
ProxyNames == ModuleExports \cup {"missing", "toString"}

\* The keys every object literal inherits from Object.prototype (one stands for all).
ObjectPrototypeNames == {"toString"}

(***************************************************************************)
(* Worker side: the dispatcher appended by WorkerTransformPlugin.transform *)
(***************************************************************************)

\* const fn = __worker_exports__[name]: __worker_exports__ is the object literal
\* { e: e, ... } over the file's exports, so the lookup also finds what the
\* literal inherits.  "own": an export; "inherited": a function of Object.prototype;
\* "undefined": nothing.
WorkerExportsLookup(name) ==
  IF name \in ModuleExports THEN "own"
  ELSE IF name \in ObjectPrototypeNames THEN "inherited"
  ELSE "undefined"

\* await fn(...args) for a fn the lookup found.
\* Object.prototype.toString called with no receiver returns "[object Undefined]".
InvokeFn(name, args) ==
  IF WorkerExportsLookup(name) = "own" THEN CallFn(name, args)
  ELSE [kind |-> "return", val |-> Str("[object Undefined]")]

\* postMessage({ error: "Function not found: " + name, id })
NotFoundResponse(name, id) ==
  [error |-> Str("Function not found: " \o name), id |-> id]

\* The result left out of the response: postMessage({ id }).
ResultResponseWithoutResult(result, id) == [id |-> id, result |-> Undefined]

\* postMessage({ result, id })
ResultResponse(result, id) == [id |-> id, result |-> result]

\* A response with both fields: postMessage({ error: e.message, result, id }).
ErrorResponseWithResult(message, id) ==
  [error |-> message, id |-> id, result |-> Undefined]

\* postMessage({ error: e.message, id })
ErrorResponse(message, id) == [error |-> message, id |-> id]

\* e.message in the catch block: reading a property of null or undefined throws
\* a TypeError, out of the catch block.
MessageThrows(e) == e.t \in {"null", "undefined"}
MessageOf(e) == IF e.t = "Error" THEN Str(e.message) ELSE Undefined

\* What the handler posts once `await fn(...args)` has settled with `outcome`:
\* the sequence of responses (none when the catch block itself throws).
ResponsesFor(outcome, id) ==
  IF outcome.kind = "return" THEN <<ResultResponse(outcome.val, id)>>
  ELSE IF MessageThrows(outcome.val) THEN <<>>
  ELSE <<ErrorResponse(MessageOf(outcome.val), id)>>

(***************************************************************************)
(* Ports.  A message port delivers once it is started; assigning onmessage *)
(* also starts it.  `exposed` records that start() ran on a port that had  *)
(* no handler.                                                             *)
(***************************************************************************)
PortNew == [exposed |-> FALSE, handler |-> FALSE, started |-> FALSE]

PortOp(p, op) ==
  IF op = "onmessage" THEN [p EXCEPT !.handler = TRUE, !.started = TRUE]
  ELSE [p EXCEPT !.started = TRUE, !.exposed = @ \/ ~p.handler]

RECURSIVE PortOps(_, _)
PortOps(p, ops) == IF ops = <<>> THEN p ELSE PortOps(PortOp(p, Head(ops)), Tail(ops))

\* port.start() ahead of port.onmessage = ...
PortSetupStartFirst == <<"start", "onmessage">>

\* The statements of a shared port's set-up, in the order of the code (the
\* caller's worker.port in initWorker, the worker's port in onconnect):
\* port.onmessage = ...; port.start()
SharedPortSetup == <<"onmessage", "start">>

\* worker.onmessage = ... / self.onmessage = ...: no port to start.
ExclusivePortSetup == <<"onmessage">>

\* The handler is attached: self.onmessage once the script has run, or, for a
\* shared worker, port.onmessage once onconnect has run.
HandlerAttached ==
  IF isShared THEN workerState = "connected" ELSE workerState = "evaluated"

Post(q, msgs) == q \o [i \in 1..Len(msgs) |-> [msg |-> msgs[i], origin |-> "worker"]]

(***************************************************************************)
(* Caller side: the virtual module generated by WorkerPlugin.load          *)
(***************************************************************************)

Pending == [kind |-> "pending"]
Resolved(v) == [kind |-> "resolved", val |-> v]
Rejected(m) == [kind |-> "rejected", message |-> m]

\* new Error(x).message: "" for undefined, the string itself for a string.
ErrorMessage(x) == IF x.t = "string" THEN x.s ELSE ""

\* { name, args, id }
CallEnvelope(name, args, id) == [args |-> args, id |-> id, name |-> name]

\* The counter read and not advanced: const id = count.
NextCountNotAdvanced == count

\* const id = count++
NextCount == count + 1

\* The table replaced by one holding the new entry alone:
\* map = { [id]: [resolve, reject] }.
RegisterOnlyLatest(id, k) == [i \in {id} |-> k]

\* The entry not stored at all.
RegisterSkipped(id, k) == map

\* m[id] = [resolve, reject], the pair of the promise numbered k
RegisterIn(m, id, k) == [i \in DOMAIN m \cup {id} |-> IF i = id THEN k ELSE m[i]]

\* map[id] = [resolve, reject], the pair of the promise numbered k
Register(id, k) == RegisterIn(map, id, k)

\* Responses taken to arrive in call order: the oldest pending promise is
\* settled, whatever the id.
MapLookupOldestPending(id) ==
  LET pend == {k \in 1..Len(promises) : promises[k].settled.kind = "pending"}
  IN IF pend = {} THEN map[id] ELSE CHOOSE k \in pend : \A j \in pend : k <= j

\* map[e.data.id]: the promise whose pair the table holds under the id
MapLookup(id) == map[id]

\* The outcome a message asks for: reject(new Error(e.data.error)) when it has an
\* error field, resolve(e.data.result) otherwise.
Settlement(msg) ==
  IF "error" \in DOMAIN msg THEN Rejected(ErrorMessage(msg.error))
  ELSE Resolved(msg.result)

\* Settlement held back until every earlier call has settled.
SettleInCallOrder(p, outcome) ==
  [p EXCEPT !.settled =
              IF /\ p.settled.kind = "pending"
                 /\ \A k \in 1..Len(promises) :
                      promises[k].id < p.id => promises[k].settled.kind # "pending"
              THEN outcome ELSE @,
            !.invoked = @ + 1]

\* The pair found and neither resolve nor reject called.
SettleDropped(p, outcome) == p

\* Calling the resolve or reject of promise p: it settles a pending promise and
\* leaves a settled one as it is.
Settle(p, outcome) ==
  [p EXCEPT !.settled = IF p.settled.kind = "pending" THEN outcome ELSE @,
            !.invoked = @ + 1]

\* function initWorker(): new Worker(...) / new SharedWorker(...); the worker's
\* script starts loading.
initWorker == "loading"

\* _nuxt_worker = initWorker(): a worker per call.
NeedsInitAlways == TRUE

\* _nuxt_worker ||= initWorker(): initWorker runs when _nuxt_worker is unset.
NeedsInit == nuxt_worker = "unset"

\* postMessage clones its message: a function among args cannot be cloned, and
\* postMessage throws a DataCloneError.
PostMessageThrows(args) == \E i \in 1..Len(args) : args[i].t = "function"

\* The throw of postMessage swallowed: the promise stays pending.
ExecutorOutcomePending(args) == Pending

\* new Promise(executor): an executor that throws rejects the promise with what
\* it threw.
ExecutorOutcome(args) ==
  IF PostMessageThrows(args) THEN Rejected("DataCloneError") ELSE Pending

\* The id taken ahead of the binding: const id = count++ as the first statement.
CountAdvancedBeforeInit == count + 1

\* initWorker() throws in `_nuxt_worker ||= initWorker()`: `const id = count++`
\* is not reached.
CountAfterInitThrows == count

\* A proxy call in which the Worker / SharedWorker constructor throws: the
\* async function's promise is rejected with the error, and the statements after
\* the first do not run.
ProxyCallInitThrows(name, args) ==
  /\ mode = "client"
  /\ NeedsInit
  /\ Len(rejectedCalls) < MaxFailures
  /\ rejectedCalls' = Append(rejectedCalls,
                             [args |-> args, id |-> count, name |-> name,
                              settled |-> Rejected("Worker construction failed")])
  /\ count' = CountAfterInitThrows
  /\ UNCHANGED <<scanVars, sharedVars, flavourVars>>
  /\ UNCHANGED <<mode, isShared, nuxt_worker, map, promises, sent, toWorker,
                 workerState, handled, toCaller, delivered, serverCalls,
                 workers, sentVia, callerPort, workerPort, settleOrder>>

\* An isolated proxy call: export async function <name>(...args), client mode.
ProxyCall(name, args) ==
  /\ mode = "client"
  /\ Len(promises) < MaxCalls
  /\ nuxt_worker' = "worker"
  /\ workerState' = IF NeedsInit THEN initWorker ELSE workerState
  /\ workers' = IF NeedsInit THEN workers + 1 ELSE workers
  /\ callerPort' = IF NeedsInit
                   THEN PortOps(PortNew, IF isShared THEN SharedPortSetup
                                         ELSE ExclusivePortSetup)
                   ELSE callerPort
  /\ sentVia' = IF PostMessageThrows(args) THEN sentVia ELSE Append(sentVia, workers')
  /\ LET id == count
         k == Len(promises) + 1
     IN /\ count' = NextCount
        /\ promises' = Append(promises, [args |-> args, id |-> id, invoked |-> 0, name |-> name,
                                         settled |-> ExecutorOutcome(args)])
        /\ map' = Register(id, k)
        /\ sent' = IF PostMessageThrows(args) THEN sent
                   ELSE Append(sent, CallEnvelope(name, args, id))
        /\ toWorker' = IF PostMessageThrows(args) THEN toWorker
                       ELSE Append(toWorker, CallEnvelope(name, args, id))
  /\ UNCHANGED exceptProtoVars
  /\ UNCHANGED <<mode, isShared, handled, toCaller, delivered, serverCalls,
                 workerPort, settleOrder>>

\* const { <name>: fn } = await import(file); return fn(...args)
\* A name the file does not export destructures to undefined, and calling it throws.
ImportAndCall(name, args) ==
  IF name \in ModuleExports THEN CallFn(name, args)
  ELSE [kind |-> "throw", val |-> [message |-> "fn is not a function", t |-> "TypeError"]]

\* The server proxy going through the client's bookkeeping: an id is allocated.
ServerCallAllocatingId(name, args) ==
  /\ mode = "server"
  /\ Len(serverCalls) < MaxCalls
  /\ count' = count + 1
  /\ serverCalls' = Append(serverCalls, [args |-> args, name |-> name, outcome |-> ImportAndCall(name, args)])
  /\ UNCHANGED exceptProtoVars
  /\ UNCHANGED <<mode, isShared, nuxt_worker, map, promises, sent, toWorker,
                 workerState, handled, toCaller, delivered,
                 workers, sentVia, callerPort, workerPort, settleOrder>>

\* An in-process proxy call: export async function <name>(...args), server mode.
ServerCall(name, args) ==
  /\ mode = "server"
  /\ Len(serverCalls) < MaxCalls
  /\ serverCalls' = Append(serverCalls, [args |-> args, name |-> name, outcome |-> ImportAndCall(name, args)])
  /\ UNCHANGED exceptProtoVars
  /\ UNCHANGED <<mode, isShared, nuxt_worker, count, map, promises, sent, toWorker,
                 workerState, handled, toCaller, delivered,
                 workers, sentVia, callerPort, workerPort, settleOrder>>

\* The worker's script has run: self.onmessage (or self.onconnect) is set.
WorkerEvaluate ==
  /\ workerState = "loading"
  /\ workerState' = "evaluated"
  /\ workerPort' = IF isShared THEN workerPort ELSE PortOps(PortNew, ExclusivePortSetup)
  /\ UNCHANGED exceptProtoVars
  /\ UNCHANGED <<mode, isShared, nuxt_worker, count, map, promises, sent, toWorker,
                 handled, toCaller, delivered, serverCalls,
                 workers, sentVia, callerPort, settleOrder>>

\* self.onconnect of a shared worker: port.onmessage is set and the port started.
WorkerConnect ==
  /\ isShared
  /\ workerState = "evaluated"
  /\ workerState' = "connected"
  /\ workerPort' = PortOps(PortNew, SharedPortSetup)
  /\ UNCHANGED exceptProtoVars
  /\ UNCHANGED <<mode, isShared, nuxt_worker, count, map, promises, sent, toWorker,
                 handled, toCaller, delivered, serverCalls,
                 workers, sentVia, callerPort, settleOrder>>

\* The dispatcher's handler runs on the next call envelope, up to its await.
WorkerReceive ==
  /\ HandlerAttached
  /\ toWorker # <<>>
  /\ LET env == Head(toWorker)
     IN IF WorkerExportsLookup(env.name) = "undefined"
        THEN /\ handled' = Append(handled,
                    [env |-> env, responses |-> <<NotFoundResponse(env.name, env.id)>>, status |-> "done"])
             /\ toCaller' = Post(toCaller, <<NotFoundResponse(env.name, env.id)>>)
        ELSE /\ handled' = Append(handled,
                    [env |-> env, responses |-> <<>>, status |-> "awaiting"])
             /\ toCaller' = toCaller
  /\ toWorker' = Tail(toWorker)
  /\ UNCHANGED exceptProtoVars
  /\ UNCHANGED <<mode, isShared, nuxt_worker, count, map, promises, sent,
                 workerState, delivered, serverCalls,
                 workers, sentVia, callerPort, workerPort, settleOrder>>

\* name, args and id kept in variables of the script, which every run of the
\* handler overwrites: a run that resumes reads those of the latest run.
ClosureOfLatest(h) == handled[Len(handled)].env

\* const { name, args, id } = e.data: constants of the h-th run of the handler,
\* which the run reads again after its await.
ClosureOf(h) == handled[h].env

\* The awaited call of the h-th run of the handler settles: the handler posts
\* the result, or runs its catch block.
WorkerResume(h) ==
  /\ handled[h].status = "awaiting"
  /\ LET env == ClosureOf(h)
         rs == ResponsesFor(InvokeFn(env.name, env.args), env.id)
     IN /\ handled' = [handled EXCEPT ![h].status = "done", ![h].responses = rs]
        /\ toCaller' = Post(toCaller, rs)
  /\ UNCHANGED exceptProtoVars
  /\ UNCHANGED <<mode, isShared, nuxt_worker, count, map, promises, sent, toWorker,
                 workerState, delivered, serverCalls,
                 workers, sentVia, callerPort, workerPort, settleOrder>>

\* Messages that reached or will reach the caller without a dispatch having
\* produced them.
NumForeign ==
  Cardinality({i \in 1..Len(toCaller) : toCaller[i].origin = "foreign"})
  + Cardinality({i \in 1..Len(delivered) : delivered[i].origin = "foreign"})

\* Their ids: every id a call of the run can get, and one that none gets.
ForeignMessages == {ResultResponse(Num(0), id) : id \in 0..MaxCalls}

\* A message arrives on the binding that answers no call: a second response for
\* an id, or one with an id of its own (the worker's code can post anything).
ForeignMessage(msg) ==
  /\ nuxt_worker = "worker"
  /\ NumForeign < MaxForeign
  /\ toCaller' = Append(toCaller, [msg |-> msg, origin |-> "foreign"])
  /\ UNCHANGED exceptProtoVars
  /\ UNCHANGED <<mode, isShared, nuxt_worker, count, map, promises, sent, toWorker,
                 workerState, handled, delivered, serverCalls,
                 workers, sentVia, callerPort, workerPort, settleOrder>>

\* worker.onmessage / worker.port.onmessage = (e) => { ... } on the next message.
\* Destructuring map[e.data.id] throws when the table has no such key.
RouterOnMessage ==
  /\ nuxt_worker = "worker"
  /\ toCaller # <<>>
  /\ LET e == Head(toCaller)
         id == e.msg.id
     IN IF id \notin DOMAIN map
        THEN /\ delivered' = Append(delivered, [msg |-> e.msg, origin |-> e.origin, threw |-> TRUE])
             /\ promises' = promises
        ELSE /\ delivered' = Append(delivered, [msg |-> e.msg, origin |-> e.origin, threw |-> FALSE])
             /\ promises' = [promises EXCEPT ![MapLookup(id)] =
                                Settle(@, Settlement(e.msg))]
  /\ toCaller' = Tail(toCaller)
  /\ LET newly == {k \in 1..Len(promises) :
                     promises[k].settled = Pending /\ promises'[k].settled # Pending}
     IN settleOrder' = IF newly = {} THEN settleOrder
                       ELSE Append(settleOrder, CHOOSE k \in newly : TRUE)
  /\ UNCHANGED exceptProtoVars
  /\ UNCHANGED <<mode, isShared, nuxt_worker, count, map, sent, toWorker,
                 workerState, handled, serverCalls,
                 workers, sentVia, callerPort, workerPort>>

(***************************************************************************)
(* Several calling contexts on one shared worker.  Each context has loaded *)
(* the generated module, so each has its own map, count and _nuxt_worker;  *)
(* new SharedWorker(url) in each of them connects to the one worker, whose *)
(* onconnect runs once per context with that context's port.               *)
(***************************************************************************)

Contexts == 1..NumContexts

RECURSIVE CallsUpTo(_)
CallsUpTo(c) == IF c = 0 THEN 0 ELSE Len(ctxPromises[c]) + CallsUpTo(c - 1)

\* The proxy call of context c: the client proxy of a .shared.ts file.
CtxProxyCall(c, name, args) ==
  /\ CallsUpTo(NumContexts) < MaxCalls
  /\ ctxWorker' = [ctxWorker EXCEPT ![c] = "worker"]
  /\ LET id == ctxCount[c]
         k == Len(ctxPromises[c]) + 1
     IN /\ ctxCount' = [ctxCount EXCEPT ![c] = @ + 1]
        /\ ctxPromises' = [ctxPromises EXCEPT ![c] =
             Append(@, [args |-> args, id |-> id, invoked |-> 0, name |-> name,
                        settled |-> Pending])]
        /\ ctxMap' = [ctxMap EXCEPT ![c] = RegisterIn(@, id, k)]
        /\ portIn' = [portIn EXCEPT ![c] = Append(@, CallEnvelope(name, args, id))]
  /\ UNCHANGED <<portOut, connected, dispatches, ctxDelivered>>
  /\ UNCHANGED exceptSharedVars

\* self.onconnect for the connection of context c: const port = e.ports[0];
\* port.onmessage = ...; port.start()
SharedConnect(c) ==
  /\ ctxWorker[c] = "worker"
  /\ c \notin connected
  /\ connected' = connected \cup {c}
  /\ UNCHANGED <<ctxWorker, ctxCount, ctxMap, ctxPromises, portIn, portOut,
                 dispatches, ctxDelivered>>
  /\ UNCHANGED exceptSharedVars

\* One port for the whole worker, that of the first connection.
ReplyPortFirst(h) == CHOOSE c \in connected : \A d \in connected : c <= d

\* port.postMessage in the handler: `port` is the constant of the run of
\* onconnect that created the handler, the port the envelope arrived on.
ReplyPort(h) == dispatches[h].port

PostOn(q, c, from, msgs) ==
  [q EXCEPT ![c] = @ \o [i \in 1..Len(msgs) |-> [from |-> from, msg |-> msgs[i]]]]

\* The handler of context c's port runs on the next envelope, up to its await.
SharedReceive(c) ==
  /\ c \in connected
  /\ portIn[c] # <<>>
  /\ LET env == Head(portIn[c])
         h == Len(dispatches) + 1
     IN IF WorkerExportsLookup(env.name) = "undefined"
        THEN /\ dispatches' = Append(dispatches,
                    [env |-> env, port |-> c,
                     responses |-> <<NotFoundResponse(env.name, env.id)>>, status |-> "done"])
             /\ portOut' = PostOn(portOut, c, c, <<NotFoundResponse(env.name, env.id)>>)
        ELSE /\ dispatches' = Append(dispatches,
                    [env |-> env, port |-> c, responses |-> <<>>, status |-> "awaiting"])
             /\ portOut' = portOut
  /\ portIn' = [portIn EXCEPT ![c] = Tail(@)]
  /\ UNCHANGED <<ctxWorker, ctxCount, ctxMap, ctxPromises, connected, ctxDelivered>>
  /\ UNCHANGED exceptSharedVars

\* The awaited call of the h-th run settles: the run posts its response on its port.
SharedResume(h) ==
  /\ dispatches[h].status = "awaiting"
  /\ LET env == dispatches[h].env
         rs == ResponsesFor(InvokeFn(env.name, env.args), env.id)
     IN /\ dispatches' = [dispatches EXCEPT ![h].status = "done", ![h].responses = rs]
        /\ portOut' = PostOn(portOut, ReplyPort(h), dispatches[h].port, rs)
  /\ UNCHANGED <<ctxWorker, ctxCount, ctxMap, ctxPromises, portIn, connected, ctxDelivered>>
  /\ UNCHANGED exceptSharedVars

\* worker.port.onmessage of context c on the next message of its port.
SharedRouter(c) ==
  /\ ctxWorker[c] = "worker"
  /\ portOut[c] # <<>>
  /\ LET e == Head(portOut[c])
         id == e.msg.id
     IN IF id \notin DOMAIN ctxMap[c]
        THEN /\ ctxDelivered' = [ctxDelivered EXCEPT ![c] =
                  Append(@, [from |-> e.from, msg |-> e.msg, threw |-> TRUE])]
             /\ ctxPromises' = ctxPromises
        ELSE /\ ctxDelivered' = [ctxDelivered EXCEPT ![c] =
                  Append(@, [from |-> e.from, msg |-> e.msg, threw |-> FALSE])]
             /\ ctxPromises' = [ctxPromises EXCEPT ![c][ctxMap[c][id]] =
                                  Settle(@, Settlement(e.msg))]
  /\ portOut' = [portOut EXCEPT ![c] = Tail(@)]
  /\ UNCHANGED <<ctxWorker, ctxCount, ctxMap, portIn, connected, dispatches>>
  /\ UNCHANGED exceptSharedVars

SharedVarsInit ==
  /\ ctxWorker = [c \in Contexts |-> "unset"]
  /\ ctxCount = [c \in Contexts |-> 0]
  /\ ctxMap = [c \in Contexts |-> <<>>]
  /\ ctxPromises = [c \in Contexts |-> <<>>]
  /\ portIn = [c \in Contexts |-> <<>>]
  /\ portOut = [c \in Contexts |-> <<>>]
  /\ connected = {}
  /\ dispatches = <<>>
  /\ ctxDelivered = [c \in Contexts |-> <<>>]

(***************************************************************************)
(* The two flavours side by side: the same calls go to an exclusive worker *)
(* and to a shared worker, generated by the same definition of the         *)
(* plugins; each call's function has settled before the next envelope is   *)
(* handled.                                                                *)
(***************************************************************************)

Flavours == {"exclusive", "shared"}
Definitions == {1, 2}

\* The handler's first statement, `const { name, args, id } = <event>.data`.
\* The shared handlers are function(event) and read event.data; the exclusive
\* handlers are (e) => and read e.data in the first definition (l. 81-83) and
\* event.data in the second (l. 293-295), where no `event` is in scope: a worker's
\* global scope has no `event` (it is a property of Window), so the read throws a
\* ReferenceError and the handler ends there.
DestructuringThrows(def, fl) == def = 2 /\ fl = "exclusive"

\* The responses a dispatcher sends for one envelope.
DispatcherResponses(def, fl, env) ==
  IF DestructuringThrows(def, fl) THEN <<>>
  ELSE IF WorkerExportsLookup(env.name) = "undefined"
       THEN <<NotFoundResponse(env.name, env.id)>>
       ELSE ResponsesFor(InvokeFn(env.name, env.args), env.id)

\* The same proxy call in both: the k-th call has id k - 1 in each.
FlavourCall(name, args) ==
  /\ Len(flEnvs) < MaxCalls
  /\ LET id == Len(flEnvs)
     IN /\ flEnvs' = Append(flEnvs, CallEnvelope(name, args, id))
        /\ flPromises' = [fl \in Flavours |->
             Append(flPromises[fl], [args |-> args, id |-> id, invoked |-> 0,
                                     name |-> name, settled |-> Pending])]
  /\ UNCHANGED <<definition, flReceived, flResponses, flRouted>>
  /\ UNCHANGED exceptFlavourVars

\* self.onmessage / port.onmessage of the worker of flavour fl on its next envelope
FlavourDispatch(fl) ==
  /\ flReceived[fl] < Len(flEnvs)
  /\ flReceived' = [flReceived EXCEPT ![fl] = @ + 1]
  /\ flResponses' = [flResponses EXCEPT ![fl] =
       @ \o DispatcherResponses(definition, fl, flEnvs[flReceived[fl] + 1])]
  /\ UNCHANGED <<definition, flEnvs, flRouted, flPromises>>
  /\ UNCHANGED exceptFlavourVars

\* worker.onmessage / worker.port.onmessage of the caller of flavour fl on its
\* next response; map[id] is the pair of the call that took the id.
FlavourRoute(fl) ==
  /\ flRouted[fl] < Len(flResponses[fl])
  /\ flRouted' = [flRouted EXCEPT ![fl] = @ + 1]
  /\ LET msg == flResponses[fl][flRouted[fl] + 1]
     IN flPromises' = [flPromises EXCEPT ![fl][msg.id + 1] = Settle(@, Settlement(msg))]
  /\ UNCHANGED <<definition, flEnvs, flReceived, flResponses>>
  /\ UNCHANGED exceptFlavourVars

FlavourVarsInit ==
  /\ flEnvs = <<>>
  /\ flReceived = [fl \in Flavours |-> 0]
  /\ flResponses = [fl \in Flavours |-> <<>>]
  /\ flRouted = [fl \in Flavours |-> 0]
  /\ flPromises = [fl \in Flavours |-> <<>>]

(***************************************************************************)
(* The export registry: getContents of the nuxt-workers.d.ts template      *)
(* (src/module.ts), and its readers.                                       *)
(***************************************************************************)

EmptyMap == [n \in {} |-> ""]

File(f, exports) == [exports |-> exports, file |-> f]

AllFiles == {"a.ts", "b.shared.ts"}

\* The states of the worker directories in a run: what resolveFiles lists, in
\* its order, and what findExportNames finds in each file (a name twice for a
\* function declared with an overload signature).
FileSystems ==
  { <<>>,
    <<File("a.ts", <<"x">>), File("b.shared.ts", <<"x", "y">>)>>,
    <<File("a.ts", <<"x">>), File("b.shared.ts", <<"x">>)>>,
    <<File("a.ts", <<"y">>), File("b.shared.ts", <<"x">>)>>,
    <<File("a.ts", <<"x", "y">>)>>,
    <<File("a.ts", <<"x", "x">>)>>,
    <<File("b.shared.ts", <<"x">>)>> }

FilesOf(dir) == {dir[i].file : i \in 1..Len(dir)}
FileList(dir) == [i \in 1..Len(dir) |-> dir[i].file]
ExportsOf(dir, f) == (CHOOSE i \in 1..Len(dir) : dir[i].file = f)

\* readFileSync(file) and findExportNames(contents), for each file of the list
ReadFiles(files) ==
  [i \in 1..Len(files) |-> File(files[i], fs[ExportsOf(fs, files[i])].exports)]

\* context.workerExports = Object.create(null)
ResetWorkerExportsKept == workerExports
ResetWorkerExports == EmptyMap

\* context.reverseMap = Object.create(null)
ResetReverseMapKept == reverseMap
ResetReverseMap == EmptyMap

\* A name that is registered already is appended to the later file's list too:
\* reverseMap[file].push(e) moved out of the else branch.
RegisterNameListsConflict(reg, file, e) ==
  [reg EXCEPT
     !.we = [n \in DOMAIN reg.we \cup {e} |->
               IF n \in DOMAIN reg.we THEN reg.we[n] ELSE file],
     !.rm = [f \in DOMAIN reg.rm \cup {file} |->
               IF f = file
               THEN Append(IF file \in DOMAIN reg.rm THEN reg.rm[file] ELSE <<>>, e)
               ELSE reg.rm[f]]]

\* The later file takes the name over: context.workerExports[e] = file with no test.
RegisterNameLastWins(reg, file, e) ==
  [reg EXCEPT
     !.we = [n \in DOMAIN reg.we \cup {e} |-> IF n = e THEN file ELSE reg.we[n]],
     !.rm = [f \in DOMAIN reg.rm \cup {file} |->
               IF f = file
               THEN Append(IF file \in DOMAIN reg.rm THEN reg.rm[file] ELSE <<>>, e)
               ELSE reg.rm[f]]]

\* The body of `for (const e of exports)`: warn if e is registered, else
\* workerExports[e] = file; reverseMap[file] ||= []; reverseMap[file].push(e)
RegisterName(reg, file, e) ==
  IF e \in DOMAIN reg.we
  THEN [reg EXCEPT !.warnings = Append(@, [existing |-> reg.we[e], file |-> file, name |-> e])]
  ELSE [reg EXCEPT
          !.we = [n \in DOMAIN reg.we \cup {e} |-> IF n = e THEN file ELSE reg.we[n]],
          !.rm = [f \in DOMAIN reg.rm \cup {file} |->
                    IF f = file
                    THEN Append(IF file \in DOMAIN reg.rm THEN reg.rm[file] ELSE <<>>, e)
                    ELSE reg.rm[f]]]

RECURSIVE RegisterExports(_, _, _)
RegisterExports(reg, file, exports) ==
  IF exports = <<>> THEN reg
  ELSE RegisterExports(RegisterName(reg, file, Head(exports)), file, Tail(exports))

\* for (const file of flattenedFiles) ...
RECURSIVE RegisterFiles(_, _)
RegisterFiles(reg, input) ==
  IF input = <<>> THEN reg
  ELSE RegisterFiles(RegisterExports(reg, Head(input).file, Head(input).exports),
                     Tail(input))

\* A file is created, edited or deleted.  The files a scan has listed and not
\* yet read stay in place (readFileSync finds them).
FsChange(dir) ==
  /\ dir # fs
  /\ \A s \in 1..Len(scans) :
       scans[s].status = "resolved" =>
         \A i \in 1..Len(scans[s].files) : scans[s].files[i] \in FilesOf(dir)
  /\ fs' = dir
  /\ UNCHANGED <<workerExports, reverseMap, scans, lastDone, observed>>
  /\ UNCHANGED exceptScanVars

\* getContents is called and its await of resolveFiles gets the file list.
ScanBegin ==
  /\ Len(scans) < MaxScans
  /\ scans' = Append(scans, [files |-> FileList(fs), input |-> <<>>,
                             status |-> "resolved", warnings |-> <<>>])
  /\ UNCHANGED <<fs, workerExports, reverseMap, lastDone, observed>>
  /\ UNCHANGED exceptScanVars

\* getContents resumes after its await: both maps are replaced and the loop
\* registers every file's exports, in one synchronous run.
ScanRun(s) ==
  /\ scans[s].status = "resolved"
  /\ LET input == ReadFiles(scans[s].files)
         reg == RegisterFiles([rm |-> ResetReverseMap, warnings |-> <<>>,
                               we |-> ResetWorkerExports], input)
     IN /\ workerExports' = reg.we
        /\ reverseMap' = reg.rm
        /\ scans' = [scans EXCEPT ![s] = [files |-> scans[s].files, input |-> input,
                                          status |-> "done", warnings |-> reg.warnings]]
  /\ lastDone' = s
  /\ UNCHANGED <<fs, observed>>
  /\ UNCHANGED exceptScanVars

\* nuxt.hook('imports:extend'): one import per name of context.workerExports
ImportsExtend ==
  /\ observed' = [after |-> lastDone, reader |-> "imports", view |-> workerExports]
  /\ UNCHANGED <<fs, workerExports, reverseMap, scans, lastDone>>
  /\ UNCHANGED exceptScanVars

\* load generates proxies unless `!exports || !exports.length`
GetsProxies(f) == f \in DOMAIN reverseMap /\ Len(reverseMap[f]) # 0

\* transform appends a dispatcher unless `!(id in opts.context.reverseMap)`
GetsDispatcher(f) == f \in DOMAIN reverseMap

\* WorkerPlugin.load: exports = reverseMap[file]; 'export {}' when there is none
Load(f) ==
  /\ observed' = [after |-> lastDone, file |-> f, reader |-> "load",
                  view |-> IF GetsProxies(f) THEN reverseMap[f] ELSE <<>>]
  /\ UNCHANGED <<fs, workerExports, reverseMap, scans, lastDone>>
  /\ UNCHANGED exceptScanVars

\* WorkerTransformPlugin.transform: skipped unless id in reverseMap; then
\* __worker_exports__ is built from reverseMap[id]
Transform(f) ==
  /\ observed' = [after |-> lastDone, file |-> f, reader |-> "transform",
                  view |-> IF GetsDispatcher(f) THEN reverseMap[f] ELSE <<>>]
  /\ UNCHANGED <<fs, workerExports, reverseMap, scans, lastDone>>
  /\ UNCHANGED exceptScanVars

ScanVarsInit ==
  /\ workerExports = EmptyMap
  /\ reverseMap = EmptyMap
  /\ scans = <<>>
  /\ lastDone = 0
  /\ observed = [reader |-> "none"]

ProtoInit ==
  /\ mode \in {"client", "server"}
  /\ isShared \in BOOLEAN
  /\ nuxt_worker = "unset"
  /\ count = 0
  /\ map = <<>>
  /\ promises = <<>>
  /\ sent = <<>>
  /\ toWorker = <<>>
  /\ workerState = "none"
  /\ handled = <<>>
  /\ toCaller = <<>>
  /\ delivered = <<>>
  /\ serverCalls = <<>>
  /\ workers = 0
  /\ sentVia = <<>>
  /\ callerPort = PortNew
  /\ workerPort = PortNew
  /\ settleOrder = <<>>

\* The code of the first definition, before any call and any scan.
Init ==
  /\ ProtoInit
  /\ ScanVarsInit
  /\ fs = <<>>
  /\ rejectedCalls = <<>>
  /\ SharedVarsInit
  /\ FlavourVarsInit
  /\ definition = 1

Next ==
  \/ \E name \in ProxyNames : \E args \in ArgLists(name) : ProxyCall(name, args)
  \/ \E name \in ProxyNames : \E args \in ArgLists(name) : ServerCall(name, args)
  \/ WorkerEvaluate
  \/ WorkerConnect
  \/ WorkerReceive
  \/ \E h \in 1..Len(handled) : WorkerResume(h)
  \/ \E msg \in ForeignMessages : ForeignMessage(msg)
  \/ RouterOnMessage

Spec == Init /\ [][Next]_vars

\* Each side runs one task at a time and every queued task is run in the end:
\* the worker's script, its connect event, each message event, and the
\* continuation of each awaited call whose function terminates.
Fairness ==
  /\ WF_vars(WorkerEvaluate)
  /\ WF_vars(WorkerConnect)
  /\ WF_vars(WorkerReceive)
  /\ WF_vars(\E h \in 1..Len(handled) : WorkerResume(h))
  /\ WF_vars(RouterOnMessage)

FairSpec == Spec /\ Fairness

\* Calls that fail on the caller's side: the worker cannot be constructed
\* (the constructor throws until it succeeds once), or an argument cannot be
\* cloned.
FailNames == {"sum", "fail"}

FailArgLists(name) ==
  IF name = "sum" THEN {<<Num(2), Num(3)>>, <<Fn, Num(3)>>} ELSE {<<>>}

FailInit == Init /\ mode = "client"

FailNext ==
  \/ \E name \in FailNames : \E args \in FailArgLists(name) : ProxyCall(name, args)
  \/ \E name \in FailNames : \E args \in FailArgLists(name) : ProxyCallInitThrows(name, args)
  \/ WorkerEvaluate
  \/ WorkerConnect
  \/ WorkerReceive
  \/ \E h \in 1..Len(handled) : WorkerResume(h)
  \/ RouterOnMessage

FailSpec == FailInit /\ [][FailNext]_vars

\* The proxies of one .shared.ts file, loaded in several contexts.
SharedNames == {"sum", "fail"}

SharedInit == Init /\ mode = "client" /\ isShared

SharedNext ==
  \/ \E c \in Contexts : \E name \in SharedNames : \E args \in ArgLists(name) :
       CtxProxyCall(c, name, args)
  \/ \E c \in Contexts : SharedConnect(c)
  \/ \E c \in Contexts : SharedReceive(c)
  \/ \E h \in 1..Len(dispatches) : SharedResume(h)
  \/ \E c \in Contexts : SharedRouter(c)

SharedSpec == SharedInit /\ [][SharedNext]_vars

\* The same calls through a worker of each flavour, for either definition of
\* the plugins.
FlavourInit ==
  /\ ProtoInit /\ mode = "client" /\ ~isShared
  /\ ScanVarsInit
  /\ fs = <<>>
  /\ rejectedCalls = <<>>
  /\ SharedVarsInit
  /\ FlavourVarsInit
  /\ definition \in Definitions

FlavourNext ==
  \/ \E name \in ProxyNames : \E args \in ArgLists(name) : FlavourCall(name, args)
  \/ \E fl \in Flavours : FlavourDispatch(fl)
  \/ \E fl \in Flavours : FlavourRoute(fl)

FlavourSpec == FlavourInit /\ [][FlavourNext]_vars

\* The registry on its own: scans and readers, with no proxy call.
ScanInit ==
  /\ mode = "client"
  /\ isShared = FALSE
  /\ nuxt_worker = "unset"
  /\ count = 0
  /\ map = <<>>
  /\ promises = <<>>
  /\ sent = <<>>
  /\ toWorker = <<>>
  /\ workerState = "none"
  /\ handled = <<>>
  /\ toCaller = <<>>
  /\ delivered = <<>>
  /\ serverCalls = <<>>
  /\ workers = 0
  /\ sentVia = <<>>
  /\ callerPort = PortNew
  /\ workerPort = PortNew
  /\ settleOrder = <<>>
  /\ ScanVarsInit
  /\ fs \in FileSystems
  /\ rejectedCalls = <<>>
  /\ SharedVarsInit
  /\ FlavourVarsInit
  /\ definition = 1

ScanNext ==
  \/ \E dir \in FileSystems : FsChange(dir)
  \/ ScanBegin
  \/ \E s \in 1..Len(scans) : ScanRun(s)
  \/ ImportsExtend
  \/ \E f \in AllFiles : Load(f)
  \/ \E f \in AllFiles : Transform(f)

ScanSpec == ScanInit /\ [][ScanNext]_vars

(***************************************************************************)
(* Properties                                                              *)
(***************************************************************************)

Min(S) == CHOOSE x \in S : \A y \in S : x <= y

\* The deliveries on which the router found an entry under `id`.
Routed(id) == {i \in 1..Len(delivered) : delivered[i].msg.id = id /\ ~delivered[i].threw}

Settled(k) == promises[k].settled # Pending

\* C1: each call's future is pending until a message with the call's own id is
\* routed, and from then on holds the outcome that message carries (its result,
\* or its error's message), whatever the order in which messages arrive.
C1_OwnIdSettles ==
  \A k \in 1..Len(promises) :
    LET hits == Routed(promises[k].id)
    IN IF hits = {} THEN ~Settled(k)
       ELSE promises[k].settled = Settlement(delivered[Min(hits)].msg)

\* Two calls outstanding at once, answered in the reverse order, with
\* different outcomes.
C1_Witness ==
  /\ Len(promises) = 2 /\ Len(delivered) = 2
  /\ delivered[1].origin = "worker" /\ delivered[1].msg.id = 1
  /\ delivered[2].origin = "worker" /\ delivered[2].msg.id = 0
  /\ promises[1].settled = Resolved(Num(5))
  /\ promises[2].settled = Rejected("boom")

\* C2: a second message with the id of a settled call is ignored: no call's
\* resolve or reject is ever invoked a second time.
C2_SecondResponseIgnored ==
  \A k \in 1..Len(promises) : promises[k].invoked <= 1

\* C3: the table holds entries only for calls issued and not yet settled: once a
\* call has settled, the table has no entry under its id.
C3_SettledEntryRemoved ==
  /\ \A id \in DOMAIN map : \E k \in 1..Len(promises) : promises[k].id = id
  /\ \A k \in 1..Len(promises) : Settled(k) => promises[k].id \notin DOMAIN map

\* C4: a message whose id has no entry in the table is ignored silently: the
\* handler never raises an error.
C4_UnknownIdIgnored ==
  \A i \in 1..Len(delivered) : ~delivered[i].threw

\* C5: the k-th call on the binding (k = 0, 1, ...) sends exactly one envelope,
\* with id k, and the counter is the number of calls issued; so ids are pairwise
\* distinct and never reused.
C5_IdsCountCalls ==
  /\ count = Len(promises)
  /\ Len(sent) = Len(promises)
  /\ \A k \in 1..Len(promises) : promises[k].id = k - 1 /\ sent[k].id = k - 1
  /\ \A j, k \in 1..Len(sent) : sent[j].id = sent[k].id => j = k

\* The first call has settled and the second was sent with id 1, not 0.
C5_Witness ==
  /\ Len(promises) = 2 /\ count = 2
  /\ Settled(1) /\ ~Settled(2)
  /\ Len(handled) = 1
  /\ toWorker = <<sent[2]>> /\ sent[2].id = 1

\* C6: every run of the dispatcher's handler that has finished sent exactly one
\* response.
C6_OneResponsePerCall ==
  \A h \in 1..Len(handled) :
    handled[h].status = "done" => Len(handled[h].responses) = 1

\* C7: for a call envelope whose name is not an export of the module the
\* dispatcher sends the id and the error "Function not found: " + name.
C7_UnknownNameReported ==
  \A h \in 1..Len(handled) :
    (handled[h].status = "done" /\ handled[h].env.name \notin ModuleExports)
      => handled[h].responses =
           <<[error |-> Str("Function not found: " \o handled[h].env.name), id |-> handled[h].env.id]>>

\* C8: when the invoked function throws, the dispatcher sends a response with
\* the call's id and an error field.
C8_ThrowReported ==
  \A h \in 1..Len(handled) :
    (/\ handled[h].status = "done"
     /\ handled[h].env.name \in ModuleExports
     /\ CallFn(handled[h].env.name, handled[h].env.args).kind = "throw")
      => /\ Len(handled[h].responses) = 1
         /\ "error" \in DOMAIN handled[h].responses[1]
         /\ handled[h].responses[1].id = handled[h].env.id

\* C9: the k-th call of an export f that returns sends exactly the envelope
\* {name: f, args, id: k}; the dispatcher answers it with {id, result: f(args)};
\* and, a response of the dispatcher being the first routed under the id, the
\* future resolves to f(args): sum with [2, 3] resolves to 5.
Returns(name, args) == name \in ModuleExports /\ CallFn(name, args).kind = "return"

C9_SuccessPath ==
  /\ Len(sent) = Len(promises)
  /\ \A k \in 1..Len(promises) :
       sent[k] = [args |-> promises[k].args, id |-> k - 1, name |-> promises[k].name]
  /\ \A h \in 1..Len(handled) :
       (handled[h].status = "done" /\ Returns(handled[h].env.name, handled[h].env.args))
         => handled[h].responses =
              <<[id |-> handled[h].env.id, result |-> CallFn(handled[h].env.name, handled[h].env.args).val]>>
  /\ \A k \in 1..Len(promises) :
       LET p == promises[k]
           hits == Routed(p.id)
       IN (/\ Returns(p.name, p.args)
           /\ hits # {}
           /\ delivered[Min(hits)].origin = "worker")
            => /\ p.settled = Resolved(CallFn(p.name, p.args).val)
               /\ (p.name = "sum" /\ p.args = <<Num(2), Num(3)>>
                     => p.settled = Resolved(Num(5)))

\* sum(2, 3) was the first call: it was sent with id 0, answered {id: 0,
\* result: 5} and resolved to 5.
C9_Witness ==
  /\ Len(promises) >= 1 /\ Len(delivered) >= 1
  /\ sent[1] = [args |-> <<Num(2), Num(3)>>, id |-> 0, name |-> "sum"]
  /\ delivered[1] = [msg |-> [id |-> 0, result |-> Num(5)], origin |-> "worker", threw |-> FALSE]
  /\ promises[1].settled = Resolved(Num(5))

\* C10: in server mode a proxy call yields the outcome of the module's function
\* as it is, and no binding, id, table entry or envelope ever exists.
C10_ServerModeDirect ==
  mode = "server" =>
    /\ nuxt_worker = "unset" /\ workerState = "none"
    /\ count = 0 /\ map = <<>> /\ promises = <<>>
    /\ sent = <<>> /\ toWorker = <<>> /\ toCaller = <<>>
    /\ handled = <<>> /\ delivered = <<>>
    /\ \A i \in 1..Len(serverCalls) :
         serverCalls[i].name \in ModuleExports
           => serverCalls[i].outcome = CallFn(serverCalls[i].name, serverCalls[i].args)

\* In server mode sum(2, 3) returned 5 and throwNull() threw null itself.
C10_Witness ==
  /\ mode = "server"
  /\ Len(serverCalls) = 2
  /\ serverCalls[1] = [args |-> <<Num(2), Num(3)>>, name |-> "sum", outcome |-> [kind |-> "return", val |-> Num(5)]]
  /\ serverCalls[2].name = "throwNull"
  /\ serverCalls[2].outcome = [kind |-> "throw", val |-> Null]

\* C11: no worker exists before the first isolated call; the first call
\* constructs it; and whatever calls follow, one worker was constructed and every
\* envelope was posted to it.
C11_LazySingleton ==
  /\ workers = (IF sent = <<>> THEN 0 ELSE 1)
  /\ (workers = 0) = (nuxt_worker = "unset")
  /\ workers = 0 => workerState = "none" /\ callerPort = PortNew
  /\ Len(sentVia) = Len(sent)
  /\ \A k \in 1..Len(sentVia) : sentVia[k] = 1

\* Two calls, of different proxies, went to the one worker.
C11_Witness ==
  /\ Len(sent) = 2 /\ sent[1].name # sent[2].name
  /\ workers = 1 /\ sentVia = <<1, 1>>

\* C15: for a shared worker, on neither side was a port started while it had no
\* handler; the caller's port has its handler and is started as soon as a worker
\* exists, so before any envelope is sent; the worker's port gets its handler only
\* in the connect event; and every message handled on a side found that side's
\* handler attached.
C15_HandlerBeforeStart ==
  isShared =>
    /\ ~callerPort.exposed /\ ~workerPort.exposed
    /\ nuxt_worker = "worker" => callerPort.handler /\ callerPort.started
    /\ sent # <<>> => callerPort.handler /\ callerPort.started
    /\ workerPort.handler => workerState = "connected"
    /\ workerPort.started => workerPort.handler
    /\ handled # <<>> => workerPort.handler /\ workerPort.started
    /\ delivered # <<>> => callerPort.handler /\ callerPort.started

\* A shared worker took a call and its response reached the caller.
C15_Witness ==
  /\ isShared /\ workerState = "connected"
  /\ handled # <<>> /\ delivered # <<>>
  /\ delivered[1].origin = "worker"

\* C16: futures settle in the order in which the messages that settle them
\* arrive, and a call is settled as soon as a message with its id is routed,
\* whether or not earlier calls have settled.
C16_ArrivalOrder ==
  /\ \A i \in 1..Len(settleOrder) : Routed(promises[settleOrder[i]].id) # {}
  /\ \A i, j \in 1..Len(settleOrder) :
       i < j => Min(Routed(promises[settleOrder[i]].id))
                  < Min(Routed(promises[settleOrder[j]].id))
  /\ \A k \in 1..Len(promises) :
       Routed(promises[k].id) # {} => \E i \in 1..Len(settleOrder) : settleOrder[i] = k

\* The second call settled while the first, with no response yet, is pending.
C16_Witness ==
  /\ Len(promises) = 2
  /\ settleOrder = <<2>>
  /\ ~Settled(1) /\ Settled(2)
  /\ delivered[1].origin = "worker"

C19_ExactlyOneOutcome ==
  /\ \A h \in 1..Len(handled) : \A r \in 1..Len(handled[h].responses) :
       LET m == handled[h].responses[r]
       IN /\ m.id = handled[h].env.id
          /\ ("result" \in DOMAIN m) # ("error" \in DOMAIN m)
  /\ \A i \in 1..Len(toCaller) :
       toCaller[i].origin = "worker"
         => ("result" \in DOMAIN toCaller[i].msg) # ("error" \in DOMAIN toCaller[i].msg)
  /\ \A k \in 1..Len(promises) :
       Settled(k) =>
         LET m == delivered[Min(Routed(promises[k].id))].msg
         IN IF "error" \in DOMAIN m
            THEN promises[k].settled.kind = "rejected"
                 /\ promises[k].settled.message = ErrorMessage(m.error)
            ELSE promises[k].settled.kind = "resolved"
                 /\ promises[k].settled.val = m.result

\* One call was answered with an error and rejected, another with a result
\* and resolved.
C19_Witness ==
  /\ Len(promises) = 2
  /\ promises[1].settled.kind = "rejected" /\ promises[2].settled.kind = "resolved"
  /\ \A i \in 1..Len(delivered) : delivered[i].origin = "worker"

\* C20: every call envelope in flight, every envelope the dispatcher is
\* handling or has handled, and every response of the dispatcher in flight has an
\* id with an entry in the table; and no response of the dispatcher ever reached
\* the router without finding its entry.
C20_RegisteredBeforeSent ==
  /\ \A i \in 1..Len(sent) : sent[i].id \in DOMAIN map
  /\ \A i \in 1..Len(toWorker) : toWorker[i].id \in DOMAIN map
  /\ \A h \in 1..Len(handled) : handled[h].env.id \in DOMAIN map
  /\ \A i \in 1..Len(toCaller) :
       toCaller[i].origin = "worker" => toCaller[i].msg.id \in DOMAIN map
  /\ \A i \in 1..Len(delivered) :
       delivered[i].origin = "worker" => ~delivered[i].threw

\* A call envelope in flight to the worker and a response of the dispatcher
\* in flight to the caller, each with its entry in the table.
C20_Witness ==
  /\ toWorker # <<>> /\ toWorker[1].id \in DOMAIN map
  /\ \E i \in 1..Len(toCaller) :
       toCaller[i].origin = "worker" /\ toCaller[i].msg.id \in DOMAIN map

(***************************************************************************)
(* The export registry                                                     *)
(***************************************************************************)

Elems(q) == {q[i] : i \in 1..Len(q)}

\* the names a scan found, the first file of its list that exports a name,
\* and the names of its i-th file that no earlier file exports, each once
NamesIn(input) == UNION {Elems(input[i].exports) : i \in 1..Len(input)}
FirstFile(input, n) == Min({i \in 1..Len(input) : n \in Elems(input[i].exports)})
Owned(input, i) ==
  LET e == input[i].exports
      keep == {k \in 1..Len(e) : /\ FirstFile(input, e[k]) = i
                                 /\ \A j \in 1..(k - 1) : e[j] # e[k]}
      pos(r) == CHOOSE k \in keep : Cardinality({j \in keep : j < k}) = r - 1
  IN [r \in 1..Cardinality(keep) |-> e[pos(r)]]

\* C12: in every completed scan, each name is registered to the first file
\* of the scan that exports it and stands in that file's export list; every
\* later occurrence of the name in another file leaves that mapping, stays out
\* of the later file's list and is reported exactly once, naming the first
\* file; and the names and files after it are registered all the same.
C12_FirstRegistrationWins ==
  \A s \in 1..Len(scans) :
    scans[s].status = "done" =>
      LET input == scans[s].input
          W == scans[s].warnings
      IN \A i \in 1..Len(input) : \A n \in Elems(input[i].exports) :
           LET first == FirstFile(input, n)
               reports == {w \in 1..Len(W) : /\ W[w].name = n
                                             /\ W[w].file = input[i].file
                                             /\ W[w].existing # input[i].file}
           IN /\ Cardinality(reports) = IF i > first THEN 1 ELSE 0
              /\ \A w \in reports : W[w].existing = input[first].file
              /\ s = lastDone =>
                   /\ n \in DOMAIN workerExports
                   /\ workerExports[n] = input[first].file
                   /\ input[first].file \in DOMAIN reverseMap
                   /\ n \in Elems(reverseMap[input[first].file])
                   /\ i > first =>
                        \/ input[i].file \notin DOMAIN reverseMap
                        \/ n \notin Elems(reverseMap[input[i].file])

\* A scan found x in a.ts and then x and y in b.shared.ts: x stays with
\* a.ts, one conflict is reported, and y, after the conflict, is registered.
C12_Witness ==
  /\ lastDone # 0
  /\ scans[lastDone].input =
       <<File("a.ts", <<"x">>), File("b.shared.ts", <<"x", "y">>)>>
  /\ workerExports["x"] = "a.ts"
  /\ workerExports["y"] = "b.shared.ts"
  /\ reverseMap["b.shared.ts"] = <<"y">>
  /\ Len(scans[lastDone].warnings) = 1

C24_WitnessOnce ==
  /\ lastDone # 0
  /\ scans[lastDone].input = <<File("a.ts", <<"x", "x">>)>>
  /\ observed.reader = "load" /\ observed.after = lastDone
  /\ observed.file = "a.ts" /\ observed.view = <<"x">>

\* C24: once a scan has completed, a name maps to a file exactly if it
\* stands in that file's export list; every registered name stands in one list
\* only and once in it; no file has an empty list; and a file of the scan none
\* of whose names it owns has no list, so that it gets no dispatcher and no
\* proxies.
C24_MapsConsistent ==
  lastDone # 0 =>
    LET input == scans[lastDone].input
        Places(n) == UNION {{<<f, k>> : k \in {j \in 1..Len(reverseMap[f]) :
                                                 reverseMap[f][j] = n}} :
                            f \in DOMAIN reverseMap}
    IN /\ \A n \in NamesIn(input) \cup DOMAIN workerExports : \A f \in AllFiles :
            (n \in DOMAIN workerExports /\ workerExports[n] = f)
              <=> (f \in DOMAIN reverseMap /\ n \in Elems(reverseMap[f]))
       /\ \A n \in DOMAIN workerExports : Cardinality(Places(n)) = 1
       /\ \A f \in DOMAIN reverseMap : reverseMap[f] # <<>>
       /\ \A i \in 1..Len(input) :
            Owned(input, i) = <<>> =>
              /\ input[i].file \notin DOMAIN reverseMap
              /\ ~GetsDispatcher(input[i].file)
              /\ ~GetsProxies(input[i].file)
       /\ \A f \in AllFiles : GetsDispatcher(f) = GetsProxies(f)

\* The scan found x in a.ts and x again, alone, in b.shared.ts:
\* b.shared.ts has no list, and transform, asked for it, appended no dispatcher.
C24_Witness ==
  /\ lastDone # 0
  /\ scans[lastDone].input = <<File("a.ts", <<"x">>), File("b.shared.ts", <<"x">>)>>
  /\ "b.shared.ts" \notin DOMAIN reverseMap
  /\ reverseMap["a.ts"] = <<"x">>
  /\ observed.reader = "transform"
  /\ observed.after = lastDone
  /\ observed.file = "b.shared.ts"
  /\ observed.view = <<>>

(***************************************************************************)
(* Interleaved dispatches                                                  *)
(***************************************************************************)

\* C21: whatever runs of the handler are suspended together and in whatever
\* order they resume, each response a run sent has the id of the envelope that
\* started the run and the outcome of that envelope's call (the value the
\* function returns for its arguments, or the message of the error it throws);
\* and every message of the dispatcher on its way to the caller or routed there
\* is such a response of one finished run.
C21_DispatchKeepsOwn ==
  /\ \A h \in 1..Len(handled) : \A r \in 1..Len(handled[h].responses) :
       LET env == handled[h].env
           resp == handled[h].responses[r]
       IN /\ resp.id = env.id
          /\ env.name \in ModuleExports =>
               LET out == CallFn(env.name, env.args)
               IN IF out.kind = "return"
                  THEN resp = [id |-> env.id, result |-> out.val]
                  ELSE resp = [error |-> Str(out.val.message), id |-> env.id]
  /\ \A q \in {toCaller, delivered} : \A i \in 1..Len(q) :
       q[i].origin = "worker" =>
         \E h \in 1..Len(handled) :
           /\ handled[h].status = "done"
           /\ handled[h].env.id = q[i].msg.id
           /\ handled[h].responses = <<q[i].msg>>

\* fail() was received first and is still awaited; sum(2, 3), received
\* while it was, has resumed and answered {id: 1, result: 5}.
C21_Witness ==
  /\ Len(handled) = 2
  /\ handled[1].status = "awaiting" /\ handled[1].env.name = "fail"
  /\ handled[2].status = "done"
  /\ handled[2].env = [args |-> <<Num(2), Num(3)>>, id |-> 1, name |-> "sum"]
  /\ handled[2].responses = <<[id |-> 1, result |-> Num(5)]>>

(***************************************************************************)
(* Failures on the caller's side                                           *)
(***************************************************************************)

\* C25: the future of a call in which the worker could not be constructed
\* is rejected; as long as no call has got past the construction, there is no
\* binding, the counter is 0, the table is empty and no envelope was sent,
\* however many calls failed; and the first call that constructs the worker has
\* the id that each failed call would have had.
C25_InitFailureLeavesState ==
  /\ \A i \in 1..Len(rejectedCalls) : rejectedCalls[i].settled.kind = "rejected"
  /\ promises = <<>> =>
       /\ nuxt_worker = "unset" /\ workers = 0 /\ workerState = "none"
       /\ count = 0 /\ DOMAIN map = {}
       /\ sent = <<>> /\ toWorker = <<>>
  /\ \A i \in 1..Len(rejectedCalls) :
       promises # <<>> => promises[1].id = rejectedCalls[i].id

\* The construction failed in one call; the next call constructed the
\* worker, was sent with id 0 and resolved to 5.
C25_Witness ==
  /\ rejectedCalls # <<>>
  /\ promises # <<>>
  /\ workers = 1
  /\ sent # <<>> /\ sent[1].id = 0 /\ rejectedCalls[1].id = 0
  /\ promises[1].settled = Resolved(Num(5))

\* C26: the future of a call whose envelope postMessage refused is
\* rejected with that failure; the call has taken its id (the counter counts it,
\* no other call has the id), its entry is in the table, and no envelope with the
\* id was sent; every other call was sent with its own id, the ids being 0, 1,
\* ... in call order.
C26_SendFailureRejects ==
  /\ count = Len(promises)
  /\ \A k \in 1..Len(promises) :
       LET p == promises[k]
           envs == {i \in 1..Len(sent) : sent[i].id = p.id}
       IN /\ p.id = k - 1
          /\ p.id \in DOMAIN map /\ map[p.id] = k
          /\ IF PostMessageThrows(p.args)
             THEN /\ p.settled = Rejected("DataCloneError")
                  /\ envs = {}
             ELSE /\ Cardinality(envs) = 1
                  /\ \A i \in envs : sent[i] = [args |-> p.args, id |-> p.id, name |-> p.name]

\* The first call passed a function and was rejected; the second call was
\* sent with id 1 and resolved to 5.
C26_Witness ==
  /\ Len(promises) = 2
  /\ PostMessageThrows(promises[1].args)
  /\ promises[1].settled = Rejected("DataCloneError")
  /\ 0 \in DOMAIN map
  /\ sent = <<[args |-> <<Num(2), Num(3)>>, id |-> 1, name |-> "sum"]>>
  /\ promises[2].settled = Resolved(Num(5))

(***************************************************************************)
(* Several contexts on one shared worker                                   *)
(***************************************************************************)

\* the settlement the call p asks for: what its function returns, or the
\* message of what it throws
OwnOutcome(p) ==
  LET out == CallFn(p.name, p.args)
  IN IF out.kind = "return" THEN Resolved(out.val) ELSE Rejected(out.val.message)

\* C23: each context numbers its calls 0, 1, ... with its own counter;
\* every response in flight to a context or routed there answers an envelope
\* that this context sent, and found its entry; and a settled future holds the
\* outcome of its own call, whatever ids the other contexts use.
C23_ResponseToOwnContext ==
  \A c \in Contexts :
    /\ ctxCount[c] = Len(ctxPromises[c])
    /\ \A k \in 1..Len(ctxPromises[c]) : ctxPromises[c][k].id = k - 1
    /\ \A i \in 1..Len(portOut[c]) : portOut[c][i].from = c
    /\ \A i \in 1..Len(ctxDelivered[c]) :
         ctxDelivered[c][i].from = c /\ ~ctxDelivered[c][i].threw
    /\ \A k \in 1..Len(ctxPromises[c]) :
         LET p == ctxPromises[c][k]
         IN /\ p.settled # Pending => p.settled = OwnOutcome(p)
            /\ p.invoked <= 1

\* Two contexts have each a call with id 0 under way: the second context's
\* sum(3, 3) was answered and resolved to 6 there, while the first context's
\* sum(2, 3), received earlier, is still awaited and pending.
C23_Witness ==
  /\ Len(dispatches) = 2
  /\ dispatches[1].port = 1 /\ dispatches[1].status = "awaiting"
  /\ dispatches[1].env = [args |-> <<Num(2), Num(3)>>, id |-> 0, name |-> "sum"]
  /\ dispatches[2].port = 2 /\ dispatches[2].status = "done"
  /\ dispatches[2].env = [args |-> <<Num(3), Num(3)>>, id |-> 0, name |-> "sum"]
  /\ ctxPromises[1][1].settled = Pending
  /\ ctxPromises[2][1].settled = Resolved(Num(6))

(***************************************************************************)
(* The two flavours                                                        *)
(***************************************************************************)

\* C22: for either definition of the plugins, when the exclusive and the
\* shared dispatcher have handled the same envelopes they have sent the same
\* sequence of responses, and when both routers have run on all of them the
\* futures of the two callers are settled alike.
C22_FlavoursInterchangeable ==
  /\ flReceived["exclusive"] = flReceived["shared"]
       => flResponses["exclusive"] = flResponses["shared"]
  /\ (/\ flReceived["exclusive"] = flReceived["shared"]
      /\ flRouted["exclusive"] = Len(flResponses["exclusive"])
      /\ flRouted["shared"] = Len(flResponses["shared"]))
       => flPromises["exclusive"] = flPromises["shared"]

\* The same of the code of the first definition alone.
FirstDefinitionInterchangeable == definition = 1 => C22_FlavoursInterchangeable

\* In the first definition sum(2, 3) and fail() were answered and settled in
\* both flavours.
FirstDefinitionWitness ==
  /\ definition = 1
  /\ Len(flEnvs) = 2 /\ flEnvs[1].name = "sum" /\ flEnvs[2].name = "fail"
  /\ \A fl \in Flavours :
       /\ flRouted[fl] = 2
       /\ flPromises[fl][1].settled.kind = "resolved"
       /\ flPromises[fl][2].settled = Rejected("boom")

====
